---- MODULE Spec2Model ----
(***************************************************************************)
(* Drag-teaching controller of agent_demo_20240527/utils_drag_teaching.py. *)
(* One foreground thread (the menu loop of TeachingTest.start) dispatches  *)
(* the handlers; record and start_remote_mode spawn daemon worker threads  *)
(* that run concurrently with it.  A handler that blocks (join with a      *)
(* timeout, input(), time.sleep) is split at its blocking points, where    *)
(* the workers may interleave.                                             *)
(***************************************************************************)
EXTENDS Integers, Sequences, FiniteSets, TLC

\* ------------------------------------------------------------------ bounds
\* Worker threads created over a run (record and start_remote_mode each
\* create one; a thread id is never reused).
MaxThreads == 2
\* Waypoints the RecordingBuffer may hold (reads stop succeeding beyond it).
MaxRec == 2

Tids == 1..MaxThreads
\* Joint vectors the master arm is read at (two joints).
Positions == {<<0, 0>>, <<120, 40>>}
RestPositions == {<<0, 0>>}
\* What the operator types at the name / file name / slot prompts.
NameInputs == {"", "wave"}
FileInputs == {"", "b.json"}
SlotInputs == {"1", "11", "x"}
\* Digit keys of the menu used for the quick save.
DigitKeys == {"0"}
\* Readings of the wall clock by time.strftime.
Times == {1, 2}
\* Outcomes of opening the file for writing in save_to_file.
FsOutcomes == {"ok", "open_failed"}

\* ------------------------------------------------------- program constants
DEFAULT_FILE == "recorded_actions.json"
TrimFrames == 3
StepsSmall == 3
StepsMedium == 5
StepsLarge == 7
DiffSmall == 100
DiffMedium == 300
MinSlot == 1
MaxSlot == 10
\* registers written by _record and by play before their loops
RecordAcceleration == 50
RecordGoalSpeed == 4000
PlayAcceleration == 100
BaseSpeedUnit == 8000
\* speed factors are held in ten-thousandths: 5000 stands for 0.5
SpeedScale == 10000
DefaultSpeed == 10000
MinSpeed == 5000
MaxSpeed == 20000

FileNames == {DEFAULT_FILE, "b.json"}

VARIABLES
    recording,          \* self.recording
    remote_mode,        \* self.remote_mode
    remote_thread,      \* self.remote_thread: a thread id, 0 for None
    record_t,           \* self.record_t: a thread id, 0 while unset
    record_list,        \* self.record_list: slot -> action
    current_recording,  \* self.current_recording
    LAST_USED_FILE,     \* the module global
    files,              \* the file system: file name -> content
    threads,            \* thread id -> [kind, pc, master_positions]
    fg,                 \* where the foreground thread is
    positions_to_play,  \* play: local positions_to_play
    play_i,             \* play: pair index i of the outer loop
    play_j,             \* play: index into interpolate_positions' result
    steps,              \* play: local steps of the pair being played
    speed_factor,       \* play: local speed_factor in 1/10000, 0 outside
    slave_bus,          \* last value written to each slave register
    mirrored,           \* history: the positions _record has written to the
                        \* slave since record last emptied the buffer
    out                 \* <<menu key, last message the handler printed>>

vars == <<recording, remote_mode, remote_thread, record_t, record_list,
          current_recording, LAST_USED_FILE, files, threads, fg,
          positions_to_play, play_i, play_j, steps, speed_factor,
          slave_bus, mirrored, out>>

modeVars == <<recording, remote_mode, remote_thread, record_t>>
libVars == <<record_list, LAST_USED_FILE, files>>
playLocals == <<positions_to_play, play_i, play_j, steps, speed_factor>>
playVars == <<playLocals, slave_bus>>

\* The registers of the slave arm as this program has written them: -1 and
\* << >> stand for a register it has not written yet.
Unwritten == -1
NoRegs == [Acceleration |-> Unwritten, Goal_Speed |-> Unwritten,
           Goal_Position |-> << >>]
\* Two consecutive writes: both succeed, the first raises, the second raises.
WriteOutcomes == {"ok", "first_failed", "second_failed"}

\* ----------------------------------------------------------------- threads
NoThread == [kind |-> "none", pc |-> "unborn", master_positions |-> <<>>]

Alive(t) == threads[t].kind # "none" /\ threads[t].pc # "done"
AliveKind(t, k) == threads[t].kind = k /\ threads[t].pc # "done"
Unborn == {t \in Tids : threads[t].kind = "none"}
\* threading.Thread(...).start(): the next unused thread id
NewTid == CHOOSE t \in Unborn : \A u \in Unborn : t <= u

\* Positions read but not yet appended by recording workers.
InFlight == Cardinality({t \in Tids : threads[t].kind = "record"
                                      /\ threads[t].pc \in {"write", "append"}})

SetPc(t, p) == [threads EXCEPT ![t].pc = p]

\* --------------------------------------------------------------------- Init
\* TeachingTest.__init__ with no recorded_actions.json on disk yet:
\* load_from_local prints file_not_found and leaves record_list empty.
NoFile == [exists |-> FALSE, valid |-> FALSE, items |-> <<>>]

Init ==
    /\ recording = FALSE
    /\ remote_mode = FALSE
    /\ remote_thread = 0
    /\ record_t = 0
    /\ record_list = << >>
    /\ current_recording = << >>
    /\ LAST_USED_FILE = DEFAULT_FILE
    /\ files = [f \in FileNames |-> NoFile]
    /\ threads = [t \in Tids |-> NoThread]
    /\ fg = "menu"
    /\ positions_to_play = << >>
    /\ play_i = 0
    /\ play_j = 0
    /\ steps = 0
    /\ speed_factor = 0
    /\ slave_bus = NoRegs
    /\ mirrored = << >>
    /\ out = <<"", "file_not_found">>

\* ------------------------------------------------- recording worker _record
\* numpy's ndarray.tolist(): the same integers as a plain list
tolist(p) == [k \in 1..Len(p) |-> p[k]]

\* The two register writes before the loop; they are outside the try, so a
\* BusError there ends the thread.
rec_setup(t) ==
    /\ threads[t].kind = "record" /\ threads[t].pc = "setup"
    /\ \E w \in WriteOutcomes :
          /\ threads' = SetPc(t, IF w = "ok" THEN "check" ELSE "done")
          /\ slave_bus' =
                IF w = "first_failed" THEN slave_bus
                ELSE IF w = "second_failed"
                THEN [slave_bus EXCEPT !.Acceleration = RecordAcceleration]
                ELSE [slave_bus EXCEPT !.Acceleration = RecordAcceleration,
                                       !.Goal_Speed = RecordGoalSpeed]
    /\ UNCHANGED <<modeVars, libVars, playLocals, current_recording, mirrored, fg, out>>

\* busy_wait, then `while self.recording`
rec_check(t) ==
    /\ threads[t].kind = "record" /\ threads[t].pc = "check"
    /\ threads' = SetPc(t, IF recording THEN "read" ELSE "done")
    /\ UNCHANGED <<modeVars, libVars, playVars, current_recording, mirrored, fg, out>>

\* master_bus.read("Present_Position") returning a position
rec_read_ok(t, p) ==
    /\ threads[t].kind = "record" /\ threads[t].pc = "read"
    /\ Len(current_recording) + InFlight < MaxRec
    /\ threads' = [threads EXCEPT ![t].pc = "write",
                                  ![t].master_positions = p]
    /\ UNCHANGED <<modeVars, libVars, playVars, current_recording, mirrored, fg, out>>

\* master_bus.read returning None: nothing to do in this iteration
rec_read_none(t) ==
    /\ threads[t].kind = "record" /\ threads[t].pc = "read"
    /\ threads' = SetPc(t, "check")
    /\ UNCHANGED <<modeVars, libVars, playVars, current_recording, mirrored, fg, out>>

rec_read_fail_Uncaught(t) ==
    /\ threads[t].kind = "record" /\ threads[t].pc = "read"
    /\ threads' = SetPc(t, "done")
    /\ UNCHANGED <<modeVars, libVars, playVars, current_recording, mirrored, fg, out>>

\* master_bus.read raising: caught by the except of the iteration
rec_read_fail(t) ==
    /\ threads[t].kind = "record" /\ threads[t].pc = "read"
    /\ threads' = SetPc(t, "except")
    /\ UNCHANGED <<modeVars, libVars, playVars, current_recording, mirrored, fg, out>>

\* slave_bus.write("Goal_Position", master_positions)
rec_write_ok(t) ==
    /\ threads[t].kind = "record" /\ threads[t].pc = "write"
    /\ threads' = SetPc(t, "append")
    /\ slave_bus' = [slave_bus EXCEPT !.Goal_Position = threads[t].master_positions]
    /\ mirrored' = Append(mirrored, threads[t].master_positions)
    /\ UNCHANGED <<modeVars, libVars, playLocals, current_recording, fg, out>>

rec_write_fail(t) ==
    /\ threads[t].kind = "record" /\ threads[t].pc = "write"
    /\ threads' = [threads EXCEPT ![t].pc = "except",
                                  ![t].master_positions = << >>]
    /\ UNCHANGED <<modeVars, libVars, playVars, current_recording, mirrored, fg, out>>

\* self.current_recording.append(master_positions.tolist())
rec_append(t) ==
    /\ threads[t].kind = "record" /\ threads[t].pc = "append"
    /\ current_recording' =
          Append(current_recording, tolist(threads[t].master_positions))
    /\ threads' = [threads EXCEPT ![t].pc = "check",
                                  ![t].master_positions = << >>]
    /\ UNCHANGED <<modeVars, libVars, playVars, mirrored, fg, out>>

\* except Exception: print, then go on with the loop
rec_except(t) ==
    /\ threads[t].kind = "record" /\ threads[t].pc = "except"
    /\ threads' = SetPc(t, "check")
    /\ UNCHANGED <<modeVars, libVars, playVars, current_recording, mirrored, fg, out>>

\* ------------------------------------------ mirroring worker remote_mode_loop
\* `while self.remote_mode`
rm_check(t) ==
    /\ threads[t].kind = "remote" /\ threads[t].pc = "check"
    /\ threads' = SetPc(t, IF remote_mode THEN "read" ELSE "done")
    /\ UNCHANGED <<modeVars, libVars, playVars, current_recording, mirrored, fg, out>>

rm_read_ok(t, p) ==
    /\ threads[t].kind = "remote" /\ threads[t].pc = "read"
    /\ threads' = [threads EXCEPT ![t].pc = "write",
                                  ![t].master_positions = p]
    /\ UNCHANGED <<modeVars, libVars, playVars, current_recording, mirrored, fg, out>>

rm_read_none(t) ==
    /\ threads[t].kind = "remote" /\ threads[t].pc = "read"
    /\ threads' = SetPc(t, "check")
    /\ UNCHANGED <<modeVars, libVars, playVars, current_recording, mirrored, fg, out>>

\* There is no try in remote_mode_loop: a BusError ends the thread.
rm_read_fail(t) ==
    /\ threads[t].kind = "remote" /\ threads[t].pc = "read"
    /\ threads' = SetPc(t, "done")
    /\ UNCHANGED <<modeVars, libVars, playVars, current_recording, mirrored, fg, out>>

rm_write_ok(t) ==
    /\ threads[t].kind = "remote" /\ threads[t].pc = "write"
    /\ threads' = [threads EXCEPT ![t].pc = "check",
                                  ![t].master_positions = << >>]
    /\ slave_bus' = [slave_bus EXCEPT !.Goal_Position = threads[t].master_positions]
    /\ UNCHANGED <<modeVars, libVars, playLocals, current_recording, mirrored, fg, out>>

rm_write_fail(t) ==
    /\ threads[t].kind = "remote" /\ threads[t].pc = "write"
    /\ threads' = [threads EXCEPT ![t].pc = "done",
                                  ![t].master_positions = << >>]
    /\ UNCHANGED <<modeVars, libVars, playVars, current_recording, mirrored, fg, out>>

\* one step of worker t, the master arm being at one of the positions P
WorkerStep(t, P) ==
    \/ rec_setup(t) \/ rec_check(t)
    \/ \E p \in P : rec_read_ok(t, p)
    \/ rec_read_none(t) \/ rec_read_fail(t)
    \/ rec_write_ok(t) \/ rec_write_fail(t)
    \/ rec_append(t) \/ rec_except(t)
    \/ rm_check(t)
    \/ \E p \in P : rm_read_ok(t, p)
    \/ rm_read_none(t) \/ rm_read_fail(t)
    \/ rm_write_ok(t) \/ rm_write_fail(t)

\* ------------------------------------------------------------ mode handlers
\* key "o"
start_remote_mode ==
    /\ fg = "menu"
    /\ IF ~remote_mode
       THEN /\ Unborn # {}
            /\ remote_mode' = TRUE
            /\ threads' = [threads EXCEPT ![NewTid] =
                  [kind |-> "remote", pc |-> "check", master_positions |-> << >>]]
            /\ remote_thread' = NewTid
            /\ out' = <<"o", "remote_mode_started">>
            /\ UNCHANGED <<recording, record_t>>
       ELSE /\ out' = <<"o", "already_in_remote_mode">>
            /\ UNCHANGED <<modeVars, threads>>
    /\ UNCHANGED <<libVars, playVars, current_recording, mirrored, fg>>

\* key "x": clear the flag, then join(timeout=1.0)
stop_remote_mode ==
    /\ fg = "menu"
    /\ IF remote_mode
       THEN /\ remote_mode' = FALSE
            /\ fg' = "stop_remote_join"
            /\ out' = <<"x", "">>
       ELSE /\ out' = <<"x", "not_in_remote_mode">>
            /\ UNCHANGED <<remote_mode, fg>>
    /\ UNCHANGED <<recording, remote_thread, record_t, libVars, playVars,
                   current_recording, mirrored, threads>>

\* join returns: the thread has ended, or the second has passed and it has not
stop_remote_join ==
    /\ fg = "stop_remote_join"
    /\ out' = <<"x", IF Alive(remote_thread) THEN "thread_warning"
                                             ELSE "remote_mode_stopped">>
    /\ fg' = "menu"
    /\ UNCHANGED <<modeVars, libVars, playVars, current_recording, mirrored, threads>>

record_Unguarded ==
    /\ fg = "menu"
    /\ Unborn # {}
    /\ current_recording' = << >>
    /\ mirrored' = << >>
    /\ recording' = TRUE
    /\ threads' = [threads EXCEPT ![NewTid] =
          [kind |-> "record", pc |-> "setup", master_positions |-> << >>]]
    /\ record_t' = NewTid
    /\ out' = <<"r", "start_record">>
    /\ UNCHANGED <<remote_mode, remote_thread, libVars, playVars, fg>>

\* key "r"
record ==
    /\ fg = "menu"
    /\ IF remote_mode
       THEN /\ out' = <<"r", "already_in_remote_mode">>
            /\ UNCHANGED <<recording, record_t, current_recording, mirrored, threads>>
       ELSE /\ Unborn # {}
            /\ current_recording' = << >>
            /\ mirrored' = << >>
            /\ recording' = TRUE
            /\ threads' = [threads EXCEPT ![NewTid] =
                  [kind |-> "record", pc |-> "setup", master_positions |-> << >>]]
            /\ record_t' = NewTid
            /\ out' = <<"r", "start_record">>
    /\ UNCHANGED <<remote_mode, remote_thread, libVars, playVars, fg>>

stop_record_FlagKept ==
    /\ fg = "menu"
    /\ IF recording THEN fg' = "stop_record_join" ELSE UNCHANGED fg
    /\ out' = <<"c", "prepare_stop">>
    /\ UNCHANGED <<modeVars, libVars, playVars, current_recording, mirrored, threads>>

\* key "c": clear the flag, then join(timeout=1.0)
stop_record ==
    /\ fg = "menu"
    /\ IF recording
       THEN /\ recording' = FALSE
            /\ fg' = "stop_record_join"
       ELSE UNCHANGED <<recording, fg>>
    /\ out' = <<"c", "prepare_stop">>
    /\ UNCHANGED <<remote_mode, remote_thread, record_t, libVars, playVars,
                   current_recording, mirrored, threads>>

\* join returns (in time or not); edit_recording starts and returns at once
\* on an empty buffer, else waits at its prompts
stop_record_join ==
    /\ fg = "stop_record_join"
    /\ IF current_recording = << >>
       THEN /\ out' = <<"c", "no_data_edit">>
            /\ fg' = "menu"
       ELSE /\ out' = <<"c", IF Alive(record_t) THEN "thread_warning"
                                               ELSE "stop_record">>
            /\ fg' = "edit_input"
    /\ UNCHANGED <<modeVars, libVars, playVars, current_recording, mirrored, threads>>

\* Python's s[n:] and s[:-n]
DropFirst(s, n) == IF Len(s) <= n THEN << >> ELSE SubSeq(s, n + 1, Len(s))
DropLast(s, n) == IF Len(s) <= n THEN << >> ELSE SubSeq(s, 1, Len(s) - n)

Trimmed(s, trim_start, trim_end) ==
    LET a == IF trim_start THEN DropFirst(s, TrimFrames) ELSE s
    IN IF trim_end /\ Len(a) > TrimFrames THEN DropLast(a, TrimFrames) ELSE a

\* the two prompts of edit_recording answered
edit_recording(trim_start, trim_end) ==
    /\ fg = "edit_input"
    /\ current_recording' = Trimmed(current_recording, trim_start, trim_end)
    /\ out' = <<"c", "edit_result">>
    /\ fg' = "menu"
    /\ UNCHANGED <<modeVars, libVars, playVars, mirrored, threads>>

\* keys "m" (0) and "u" (1)
set_master_torque(enable) ==
    /\ fg = "menu"
    /\ \E ok \in BOOLEAN :
          out' = <<IF enable = 1 THEN "u" ELSE "m",
                   IF ~ok THEN "torque_error"
                   ELSE IF enable = 1 THEN "master_torque_on"
                   ELSE "master_torque_off">>
    /\ UNCHANGED <<modeVars, libVars, playVars, current_recording, mirrored, threads, fg>>

\* keys "n" (0) and "v" (1)
set_slave_torque(enable) ==
    /\ fg = "menu"
    /\ \E ok \in BOOLEAN :
          out' = <<IF enable = 1 THEN "v" ELSE "n",
                   IF ~ok THEN "torque_error"
                   ELSE IF enable = 1 THEN "slave_torque_on"
                   ELSE "slave_torque_off">>
    /\ UNCHANGED <<modeVars, libVars, playVars, current_recording, mirrored, threads, fg>>

\* ---------------------------------------------------------- action library
\* A value of the persisted JSON object: a mapping with a positions field
\* ("action"), a mapping without one ("nopos"), or a number ("number").
Action(positions, name, timestamp) ==
    [kind |-> "action", positions |-> positions, name |-> name,
     timestamp |-> timestamp]

\* str(n) of the slot numbers, as json.dump writes the keys and as the
\* default name "Action_{n}" shows them
DecStr(n) ==
    CASE n = 1 -> "1" [] n = 2 -> "2" [] n = 3 -> "3" [] n = 10 -> "10"
      [] n = 11 -> "11" [] OTHER -> "0"

\* str.isdigit() and int(str) on the strings that occur
IsDigit(k) == k \in {"0", "1", "2", "3", "10", "11", "01"}
PyInt_FirstDigit(k) ==
    CASE k \in {"1", "10", "11"} -> 1 [] k = "2" -> 2 [] k = "3" -> 3
      [] OTHER -> 0
PyInt(k) ==
    CASE k \in {"1", "01"} -> 1 [] k = "2" -> 2 [] k = "3" -> 3
      [] k = "10" -> 10 [] k = "11" -> 11 [] OTHER -> 0
IntParses(k) == IsDigit(k)

DefaultName(n) ==
    CASE n = 1 -> "Action_1" [] n = 2 -> "Action_2" [] n = 3 -> "Action_3"
      [] n = 10 -> "Action_10" [] n = 11 -> "Action_11" [] OTHER -> "Action_0"

EmptyLib == [s \in {} |-> NoThread]
Put(lib, s, v) == [x \in DOMAIN lib \cup {s} |-> IF x = s THEN v ELSE lib[x]]

\* the slots of a library in ascending order
RECURSIVE SortedSlots(_)
SortedSlots(S) ==
    IF S = {} THEN << >>
    ELSE LET m == CHOOSE x \in S : \A y \in S : x <= y
         IN <<m>> \o SortedSlots(S \ {m})

\* json.dump(self.record_list, f): integer keys are written as strings
Dump(lib) ==
    LET ks == SortedSlots(DOMAIN lib)
    IN [exists |-> TRUE, valid |-> TRUE,
        items |-> [k \in 1..Len(ks) |-> <<DecStr(ks[k]), lib[ks[k]]>>]]

\* {int(k): v for k, v in data.items() if "positions" in v}: the condition is
\* evaluated first and raises on a number, then int(k) raises on a key that
\* is no integer; a later duplicate of a key replaces the earlier one.
RECURSIVE Convert(_, _)
Convert(items, acc) ==
    IF items = << >> THEN [ok |-> TRUE, lib |-> acc]
    ELSE LET k == Head(items)[1]
             v == Head(items)[2]
         IN IF v.kind = "number" THEN [ok |-> FALSE, lib |-> acc]
            ELSE IF v.kind = "nopos" THEN Convert(Tail(items), acc)
            ELSE IF ~IntParses(k) THEN [ok |-> FALSE, lib |-> acc]
            ELSE Convert(Tail(items), Put(acc, PyInt(k), v))

\* save_to_file: what the file holds after it, and whether it succeeded
save_to_file(filename, lib, fs) ==
    IF fs = "ok" THEN [files EXCEPT ![filename] = Dump(lib)] ELSE files

SaveAs(key, action_number, name_input, file_input, ts, fs) ==
    LET lib == Put(record_list, action_number,
                   Action(current_recording,
                          IF name_input = "" THEN DefaultName(action_number)
                          ELSE name_input, ts))
        filename == IF file_input = "" THEN DEFAULT_FILE ELSE file_input
    IN /\ record_list' = lib
       /\ LAST_USED_FILE' = filename
       /\ files' = save_to_file(filename, lib, fs)
       /\ out' = <<key, IF fs = "ok" THEN "save_success" ELSE "save_failed">>

\* key "s"
save_recording(number_input, name_input, file_input, ts, fs) ==
    /\ fg = "menu"
    /\ IF current_recording = << >>
       THEN /\ out' = <<"s", "no_data_save">>
            /\ UNCHANGED libVars
       ELSE IF IsDigit(number_input) /\ MinSlot <= PyInt(number_input)
                                     /\ PyInt(number_input) <= MaxSlot
       THEN SaveAs("s", PyInt(number_input), name_input, file_input, ts, fs)
       ELSE /\ out' = <<"s", "invalid_input">>
            /\ UNCHANGED libVars
    /\ UNCHANGED <<modeVars, playVars, current_recording, mirrored, threads, fg>>

\* save_recording_with_number(action_number), called while `key` is handled
save_recording_with_number(key, action_number, name_input, file_input, ts, fs) ==
    /\ fg = "menu"
    /\ IF current_recording = << >>
       THEN /\ out' = <<key, "no_data_save">>
            /\ UNCHANGED libVars
       ELSE SaveAs(key, action_number, name_input, file_input, ts, fs)
    /\ UNCHANGED <<modeVars, playVars, current_recording, mirrored, threads, fg>>

\* a digit key of the menu: "0" stands for slot 10
KeySlot(key) == IF key # "0" THEN PyInt(key) ELSE MaxSlot
digit_key(key, name_input, file_input, ts, fs) ==
    save_recording_with_number(key, KeySlot(key), name_input, file_input, ts, fs)

\* with self.record_list = {} ahead of the try
Loaded_Cleared(data, lib) ==
    LET conv == Convert(data.items, EmptyLib)
    IN IF ~data.exists THEN [lib |-> lib, msg |-> "file_not_found"]
       ELSE IF data.valid /\ conv.ok
       THEN [lib |-> conv.lib, msg |-> "load_success"]
       ELSE [lib |-> EmptyLib, msg |-> "load_failed"]
\* the body of load_from_local on the content `data` of the file: the
\* library afterwards and the message printed
Loaded(data, lib) ==
    LET conv == Convert(data.items, EmptyLib)
    IN IF ~data.exists THEN [lib |-> lib, msg |-> "file_not_found"]
       ELSE IF data.valid /\ conv.ok
       THEN [lib |-> conv.lib, msg |-> "load_success"]
       ELSE [lib |-> lib, msg |-> "load_failed"]

\* key "l"
load_from_local(file_input) ==
    LET filename == IF file_input = "" THEN LAST_USED_FILE ELSE file_input
        res == Loaded(files[filename], record_list)
    IN /\ fg = "menu"
       /\ record_list' = res.lib
       /\ out' = <<"l", res.msg>>
       /\ UNCHANGED <<modeVars, playVars, current_recording, mirrored, threads, fg,
                      LAST_USED_FILE, files>>

\* ----------------------------------------------------------------- playback
Abs(x) == IF x < 0 THEN -x ELSE x
MaxOf(S) == CHOOSE x \in S : \A y \in S : y <= x
\* np.max(np.abs(end_pos - start_pos))
max_diff(start_pos, end_pos) ==
    MaxOf({Abs(end_pos[k] - start_pos[k]) : k \in 1..Len(start_pos)})
StepsFor_Inclusive(d) ==
    IF d <= DiffSmall THEN StepsSmall
    ELSE IF d <= DiffMedium THEN StepsMedium ELSE StepsLarge
StepsFor(d) ==
    IF d < DiffSmall THEN StepsSmall
    ELSE IF d < DiffMedium THEN StepsMedium ELSE StepsLarge
\* number of points interpolate_positions returns for pair i (0-based)
PairSteps(ps, i) == StepsFor(max_diff(ps[i + 1], ps[i + 2]))

\* float(input(...) or 1.0) in 1/10000 on the inputs that occur; TRUE in
\* FloatParses when float() accepts the string
SpeedTable ==
    [s \in {"", "0.1", "0.5", "0.5001", "1.0", "1.5", "2.0", "5.0"} |->
        CASE s = "0.1" -> 1000 [] s = "0.5" -> 5000 [] s = "0.5001" -> 5001
          [] s = "1.5" -> 15000 [] s = "2.0" -> 20000 [] s = "5.0" -> 50000
          [] OTHER -> DefaultSpeed]
FloatParses(s) == s \in DOMAIN SpeedTable
Min(a, b) == IF b < a THEN b ELSE a
Max(a, b) == IF b > a THEN b ELSE a
SpeedFactor_Unclamped(speed_input) ==
    IF FloatParses(speed_input) THEN SpeedTable[speed_input] ELSE DefaultSpeed
\* lines 388-392: the speed factor play goes on with
SpeedFactor(speed_input) ==
    LET typed == IF FloatParses(speed_input) THEN SpeedTable[speed_input]
                 ELSE DefaultSpeed
    IN Max(MinSpeed, Min(MaxSpeed, typed))
\* int(8000 * speed_factor)
BASE_SPEED(sf) == (BaseSpeedUnit * sf) \div SpeedScale

\* t = i / (steps - 1) eased, as the fraction EaseNum / (steps - 1)^2:
\* 2 t^2 below one half, else 1 - (-2 t + 2)^2 / 2
EaseNum_NoHalf(i, n) ==
    IF 2 * i < n THEN 2 * i * i ELSE n * n - 4 * (n - i) * (n - i)
EaseNum(i, n) == IF 2 * i < n THEN 2 * i * i ELSE n * n - 2 * (n - i) * (n - i)
\* np.round of a / b for b > 0: to the nearest integer, a tie to the even one
RoundHalfEven(a, b) ==
    LET q == a \div b
        r == a % b
    IN IF 2 * r > b THEN q + 1
       ELSE IF 2 * r < b THEN q
       ELSE IF q % 2 = 0 THEN q ELSE q + 1
\* with t = i / steps
interpolate_positions_OffByOne(start_pos, end_pos, nsteps) ==
    LET n == nsteps
    IN [i \in 1..nsteps |->
          [k \in 1..Len(start_pos) |->
              RoundHalfEven(start_pos[k] * n * n
                              + (end_pos[k] - start_pos[k]) * EaseNum(i - 1, n),
                            n * n)]]
\* the list interpolate_positions(start_pos, end_pos, steps) returns, for
\* steps = nsteps >= 2 (steps = 1 divides by 0)
interpolate_positions(start_pos, end_pos, nsteps) ==
    LET n == nsteps - 1
    IN [i \in 1..nsteps |->
          [k \in 1..Len(start_pos) |->
              RoundHalfEven(start_pos[k] * n * n
                              + (end_pos[k] - start_pos[k]) * EaseNum(i - 1, n),
                            n * n)]]
\* the point written at step j of pair i (both 0-based)
PlayPoint(ps, i, j, n) ==
    interpolate_positions(ps[i + 1], ps[i + 2], n)[j + 1]

\* key "p": the prompts, then the two register writes before the loop
play(number_input, speed_input) ==
    /\ fg = "menu"
    /\ IF remote_mode
       THEN /\ out' = <<"p", "already_in_remote_mode">>
            /\ UNCHANGED <<playVars, fg>>
       ELSE IF ~(IsDigit(number_input) /\ MinSlot <= PyInt(number_input)
                                       /\ PyInt(number_input) <= MaxSlot)
       THEN /\ out' = <<"p", "invalid_input">>
            /\ UNCHANGED <<playVars, fg>>
       ELSE IF PyInt(number_input) \notin DOMAIN record_list
       THEN /\ out' = <<"p", "action_not_exist">>
            /\ UNCHANGED <<playVars, fg>>
       ELSE \E w \in WriteOutcomes :
              LET ps == record_list[PyInt(number_input)].positions
                  sf == SpeedFactor(speed_input)
              IN IF w = "first_failed"
                 THEN /\ out' = <<"p", "play_error">>
                      /\ UNCHANGED <<playVars, fg>>
                 ELSE IF w = "second_failed"
                 THEN /\ out' = <<"p", "play_error">>
                      /\ slave_bus' =
                           [slave_bus EXCEPT !.Acceleration = PlayAcceleration]
                      /\ UNCHANGED <<playLocals, fg>>
                 ELSE /\ out' = <<"p", "start_play">>
                      /\ slave_bus' =
                           [slave_bus EXCEPT !.Acceleration = PlayAcceleration,
                                             !.Goal_Speed = BASE_SPEED(sf)]
                      /\ IF Len(ps) <= 1
                         THEN UNCHANGED <<playLocals, fg>>
                         ELSE /\ positions_to_play' = ps
                              /\ play_i' = 0
                              /\ play_j' = 0
                              /\ steps' = PairSteps(ps, 0)
                              /\ speed_factor' = sf
                              /\ fg' = "play_loop"
    /\ UNCHANGED <<modeVars, libVars, current_recording, mirrored, threads>>

\* the write of the last interpolated point of the last pair
LastPoint ==
    /\ play_i = Len(positions_to_play) - 2
    /\ play_j = steps - 1

\* slave_bus.write("Goal_Position", pos), then time.sleep: the whole loop is
\* inside one try, so a BusError leaves it
play_write ==
    /\ fg = "play_loop"
    /\ \E ok \in BOOLEAN :
          IF ~ok
          THEN /\ out' = <<"p", "play_error">>
               /\ fg' = "menu"
               /\ positions_to_play' = << >> /\ play_i' = 0 /\ play_j' = 0
               /\ steps' = 0 /\ speed_factor' = 0
               /\ UNCHANGED slave_bus
          ELSE /\ slave_bus' =
                    [slave_bus EXCEPT !.Goal_Position =
                        PlayPoint(positions_to_play, play_i, play_j, steps)]
               /\ IF LastPoint
                  THEN /\ fg' = "menu"
                       /\ positions_to_play' = << >>
                       /\ play_i' = 0 /\ play_j' = 0
                       /\ steps' = 0 /\ speed_factor' = 0
                       /\ UNCHANGED out
                  ELSE IF play_j = steps - 1
                  THEN /\ play_i' = play_i + 1 /\ play_j' = 0
                       /\ steps' = PairSteps(positions_to_play, play_i + 1)
                       /\ UNCHANGED <<positions_to_play, speed_factor, fg, out>>
                  ELSE /\ play_j' = play_j + 1
                       /\ UNCHANGED <<positions_to_play, play_i, steps,
                                      speed_factor, fg, out>>
    /\ UNCHANGED <<modeVars, libVars, current_recording, mirrored, threads>>

\* any other key
invalid_key ==
    /\ fg = "menu"
    /\ out' = <<"?", "invalid_key">>
    /\ UNCHANGED <<modeVars, libVars, playVars, current_recording, mirrored, threads, fg>>

\* ----------------------------------------------------------- specifications
\* The whole program: every handler of the menu and the workers.  The master
\* arm rests at one position and the operator saves to slot 1 of the default
\* file, so that the threads' interleavings stay explorable.
Next ==
    \/ \E t \in Tids : WorkerStep(t, RestPositions)
    \/ start_remote_mode \/ stop_remote_mode \/ stop_remote_join
    \/ record \/ stop_record \/ stop_record_join
    \/ \E trim_start \in BOOLEAN, trim_end \in BOOLEAN :
          edit_recording(trim_start, trim_end)
    \/ \E enable \in {0, 1} : set_master_torque(enable)
    \/ \E enable \in {0, 1} : set_slave_torque(enable)
    \/ \E n \in {"1", "x"}, fs \in FsOutcomes : save_recording(n, "", "", 1, fs)
    \/ \E fs \in FsOutcomes : digit_key("1", "", "", 1, fs)
    \/ load_from_local("")
    \/ \E n \in {"1", "x"} : play(n, "")
    \/ play_write
    \/ invalid_key

Spec == Init /\ [][Next]_vars

\* The mode controller and its workers on their own, the master arm moving
\* between two positions.  The handlers left out (torque, save, load, play)
\* assign none of the flags, the thread handles, the buffer or the threads.
ModeNext ==
    \/ \E t \in Tids : WorkerStep(t, Positions)
    \/ start_remote_mode \/ stop_remote_mode \/ stop_remote_join
    \/ record \/ stop_record \/ stop_record_join
    \/ \E trim_start \in BOOLEAN, trim_end \in BOOLEAN :
          edit_recording(trim_start, trim_end)

ModeSpec == Init /\ [][ModeNext]_vars

\* The action library on its own: a recording session has
\* ended (no worker is left) with one of Recordings in the buffer, and
\* recorded_actions.json held one of InitFiles at start-up.
Recordings == {<< >>, <<<<120, 40>>, <<120, 40>>, <<0, 0>>>>}
StoredAction == Action(<<<<0, 0>>, <<120, 40>>>>, "Action_3", 1)
NoPositions == [kind |-> "nopos", positions |-> << >>, name |-> "", timestamp |-> 0]
Number == [kind |-> "number", positions |-> << >>, name |-> "", timestamp |-> 0]
JsonObject(items) == [exists |-> TRUE, valid |-> TRUE, items |-> items]
InitFiles ==
    {NoFile,
     [exists |-> TRUE, valid |-> FALSE, items |-> << >>],
     JsonObject(<<<<"3", StoredAction>>>>),
     JsonObject(<<<<"1", NoPositions>>, <<"3", StoredAction>>>>),
     JsonObject(<<<<"1", Number>>, <<"3", StoredAction>>>>),
     JsonObject(<<<<"x", StoredAction>>>>),
     JsonObject(<<<<"11", StoredAction>>>>)}

LibInit ==
    /\ recording = FALSE
    /\ remote_mode = FALSE
    /\ remote_thread = 0
    /\ record_t = 0
    /\ current_recording \in Recordings
    /\ LAST_USED_FILE = DEFAULT_FILE
    /\ \E f0 \in InitFiles :
          /\ files = [f \in FileNames |-> IF f = DEFAULT_FILE THEN f0 ELSE NoFile]
          /\ record_list = Loaded(f0, EmptyLib).lib
          /\ out = <<"", Loaded(f0, EmptyLib).msg>>
    /\ threads = [t \in Tids |-> NoThread]
    /\ fg = "menu"
    /\ positions_to_play = << >>
    /\ play_i = 0
    /\ play_j = 0
    /\ steps = 0
    /\ speed_factor = 0
    /\ slave_bus = NoRegs
    /\ mirrored = << >>

\* Actions saved at the "s" prompt are named by the operator; quick saves
\* happen at either reading of the clock.
LibNext ==
    \/ \E n \in SlotInputs, nm \in NameInputs, f \in FileInputs,
          fs \in FsOutcomes : save_recording(n, nm, f, 1, fs)
    \/ \E k \in DigitKeys, f \in FileInputs, ts \in Times, fs \in FsOutcomes :
          digit_key(k, "", f, ts, fs)
    \/ \E f \in FileInputs : load_from_local(f)

LibSpec == LibInit /\ [][LibNext]_vars

\* The library methods of TeachingTest called directly, as start() calls
\* them and as any other caller of the class may: save_recording_with_number
\* takes the slot as its argument.
CallSlots == {1, 11}
CallNext ==
    \/ \E n \in SlotInputs, fs \in FsOutcomes : save_recording(n, "", "", 1, fs)
    \/ \E a \in CallSlots, fs \in FsOutcomes :
          save_recording_with_number("", a, "", "", 1, fs)
    \/ load_from_local("")

CallSpec == LibInit /\ [][CallNext]_vars

\* The end of a recording session on its own: the worker has exited with
\* 0..MaxEditLen samples in the buffer, stop_record is at its join, and
\* edit_recording follows.  The samples of a buffer are all different.
MaxEditLen == 10
EditBases == {0, 100, 200}
Ramp(n, b) == [i \in 1..n |-> <<b + i - 1, 0>>]
EditInit ==
    /\ recording = FALSE
    /\ remote_mode = FALSE
    /\ remote_thread = 0
    /\ record_t = 1
    /\ record_list = << >>
    /\ current_recording \in {Ramp(n, b) : n \in 0..MaxEditLen, b \in EditBases}
    /\ LAST_USED_FILE = DEFAULT_FILE
    /\ files = [f \in FileNames |-> NoFile]
    /\ threads = [t \in Tids |->
                    IF t = 1 THEN [kind |-> "record", pc |-> "done",
                                   master_positions |-> << >>]
                    ELSE NoThread]
    /\ fg = "stop_record_join"
    /\ positions_to_play = << >>
    /\ play_i = 0
    /\ play_j = 0
    /\ steps = 0
    /\ speed_factor = 0
    /\ slave_bus = NoRegs
    /\ mirrored = << >>
    /\ out = <<"c", "prepare_stop">>

EditNext ==
    \/ stop_record_join
    \/ \E trim_start \in BOOLEAN, trim_end \in BOOLEAN :
          edit_recording(trim_start, trim_end)

EditSpec == EditInit /\ [][EditNext]_vars

\* Playback on its own: the library loaded at start-up holds one action in
\* slot 1, of up to MaxPlayLen waypoints taken from PlayPoints, whose pairs
\* differ by 99, 100, 200, 299, 300 and other amounts in their largest joint.
MaxPlayLen == 3
PlayPoints == {<<0, 0>>, <<99, -50>>, <<100, 7>>, <<-200, 10>>, <<300, -9>>}
SpeedInputs == {"", "0.1", "0.5001", "1.0", "1.5", "5.0", "abc"}
RECURSIVE SeqsUpTo(_, _)
SeqsUpTo(S, n) ==
    IF n = 0 THEN {<< >>}
    ELSE LET shorter == SeqsUpTo(S, n - 1)
         IN shorter \cup {Append(q, x) : q \in shorter, x \in S}
PlayInit ==
    /\ recording = FALSE
    /\ remote_mode = FALSE
    /\ remote_thread = 0
    /\ record_t = 0
    /\ \E ps \in SeqsUpTo(PlayPoints, MaxPlayLen) :
          /\ record_list = Put(EmptyLib, 1, Action(ps, "Action_1", 1))
          /\ files = [f \in FileNames |->
                        IF f = DEFAULT_FILE THEN Dump(record_list) ELSE NoFile]
    /\ current_recording = << >>
    /\ LAST_USED_FILE = DEFAULT_FILE
    /\ threads = [t \in Tids |-> NoThread]
    /\ fg = "menu"
    /\ positions_to_play = << >>
    /\ play_i = 0
    /\ play_j = 0
    /\ steps = 0
    /\ speed_factor = 0
    /\ slave_bus = NoRegs
    /\ mirrored = << >>
    /\ out = <<"", "load_success">>

PlayNext ==
    \/ \E n \in {"1", "3"}, sp \in SpeedInputs : play(n, sp)
    \/ play_write

PlaySpec == PlayInit /\ [][PlayNext]_vars

\* The loop over interpolate_positions(A, B, steps) on its own, for every
\* pair A, B of PlayPoints and every steps in 2..MaxSteps: play has made its
\* two register writes at the default speed and is about to write the
\* first point.
MaxSteps == 7
InterpInit ==
    /\ recording = FALSE
    /\ remote_mode = FALSE
    /\ remote_thread = 0
    /\ record_t = 0
    /\ \E A \in PlayPoints, B \in PlayPoints :
          /\ record_list = Put(EmptyLib, 1, Action(<<A, B>>, "Action_1", 1))
          /\ files = [f \in FileNames |->
                        IF f = DEFAULT_FILE THEN Dump(record_list) ELSE NoFile]
          /\ positions_to_play = <<A, B>>
    /\ current_recording = << >>
    /\ LAST_USED_FILE = DEFAULT_FILE
    /\ threads = [t \in Tids |-> NoThread]
    /\ fg = "play_loop"
    /\ play_i = 0
    /\ play_j = 0
    /\ steps \in 2..MaxSteps
    /\ speed_factor = DefaultSpeed
    /\ slave_bus = [NoRegs EXCEPT !.Acceleration = PlayAcceleration,
                                  !.Goal_Speed = BASE_SPEED(DefaultSpeed)]
    /\ mirrored = << >>
    /\ out = <<"p", "start_play">>

InterpSpec == InterpInit /\ [][play_write]_vars

\* Python threads are scheduled fairly: a worker that can step does step.
FairSpec == Spec /\ \A t \in Tids : WF_vars(WorkerStep(t, RestPositions))

\* ------------------------------------------------------------------- claims
AnyWorkerAlive == \E t \in Tids : Alive(t)
Playing == fg = "play_loop"
ModeRequest == record \/ start_remote_mode \/ \E n \in {"1", "x"} : play(n, "")
ModeState == <<recording, remote_mode, remote_thread, record_t,
               current_recording, threads>>

\* C1: at most one of {a live recording worker, a live mirroring worker, a
\* playback in progress} exists in any reachable state.
C1_AtMostOneMode ==
    Cardinality({t \in Tids : Alive(t)}) + (IF Playing THEN 1 ELSE 0) <= 1

\* C2: a mode request (record, start_remote_mode, play) made while a mode is
\* active is answered Busy and changes neither the flags, the handles, the
\* RecordingBuffer nor the workers.
C2_BusyNoChange ==
    [][(ModeRequest /\ (recording \/ remote_mode \/ AnyWorkerAlive))
         => (out'[2] = "already_in_remote_mode" /\ UNCHANGED ModeState)]_vars

\* C3: record while remote_mode is True is rejected: no worker is started,
\* recording stays False as it was, current_recording is not reset, and
\* remote_mode and the mirroring worker are unchanged.
C3_RecordRejectedWhileMirroring ==
    [][(record /\ remote_mode)
         => (out' = <<"r", "already_in_remote_mode">> /\ UNCHANGED ModeState)]_vars

C3_Witness ==
    /\ out = <<"r", "already_in_remote_mode">>
    /\ remote_mode /\ AliveKind(remote_thread, "remote")
    /\ ~recording /\ current_recording # << >>

\* C4: the foreground thread neither modifies current_recording nor writes a
\* bus register while a recording or mirroring worker is alive.
FgModifiesBuffer ==
    /\ \/ record
       \/ \E trim_start \in BOOLEAN, trim_end \in BOOLEAN :
             edit_recording(trim_start, trim_end)
    /\ current_recording' # current_recording
FgWritesBus ==
    \/ play_write
    \/ \E n \in {"1", "x"} : play(n, "") /\ out'[2] \in {"start_play", "play_error"}
    \/ \E enable \in {0, 1} : set_master_torque(enable)
    \/ \E enable \in {0, 1} : set_slave_torque(enable)
C4_WorkerExclusive ==
    [][(FgModifiesBuffer \/ FgWritesBus) => ~AnyWorkerAlive]_vars

\* C5: once the flag of a live worker has been cleared, that worker
\* eventually exits, whatever the foreground thread does next.
C5_Quiescence ==
    \A t \in Tids :
        ((AliveKind(t, "record") /\ ~recording)
           \/ (AliveKind(t, "remote") /\ ~remote_mode)) ~> ~Alive(t)

\* C6: from the moment stop_record (stop_remote_mode) has cleared the flag
\* until the next key is handled, so also when the call returns and whether
\* or not the join timed out, recording (remote_mode) is False.
C6_StopLeavesIdle ==
    /\ out[1] = "c" => ~recording
    /\ out[1] = "x" => ~remote_mode

\* both stops have timed out: the workers are still alive, the flags Idle
C6_Witness ==
    /\ out = <<"x", "thread_warning">> /\ fg = "menu"
    /\ Alive(remote_thread) /\ ~remote_mode
    /\ record_t # 0 /\ Alive(record_t) /\ ~recording

\* C7: playback leaves its write loop only after the last interpolated point
\* of the last pair: a failed write does not end it earlier.
C7_PlaybackContinues ==
    [][(fg = "play_loop" /\ fg' # "play_loop") => LastPoint]_vars

\* C8: while remote_mode is True a mirroring worker is alive.
C8_MirroringSurvives ==
    remote_mode => \E t \in Tids : AliveKind(t, "remote")

\* C9: an exception in an iteration of the sampling loop is handled there:
\* the step that raises it and the handler append nothing, the handler goes
\* on to the next iteration, and a worker leaves the loop only on finding
\* recording False.
C9_RecordingSurvivesErrors ==
    [][\A t \in Tids :
         threads[t].kind = "record" /\ threads'[t] # threads[t] =>
           /\ threads[t].pc \in {"read", "write"}
                => (threads'[t].pc # "done"
                    /\ current_recording' = current_recording)
           /\ threads[t].pc = "except"
                => (threads'[t].pc = "check"
                    /\ current_recording' = current_recording)
           /\ (threads[t].pc \in {"check", "append"} /\ threads'[t].pc = "done")
                => ~recording]_vars

\* a recording worker is in its except handler while recording goes on
C9_Witness ==
    \E t \in Tids :
        /\ threads[t].kind = "record" /\ threads[t].pc = "except"
        /\ recording /\ current_recording # << >>

\* C10: a step that is no save to slot s keeps slot s in record_list with
\* the same positions, name and timestamp.
SaveTo(s) ==
    \E f \in FileInputs, fs \in FsOutcomes :
       \/ \E n \in SlotInputs, nm \in NameInputs :
             PyInt(n) = s /\ save_recording(n, nm, f, 1, fs)
       \/ \E k \in DigitKeys, ts \in Times :
             KeySlot(k) = s /\ digit_key(k, "", f, ts, fs)
C10_SavedActionsKept ==
    [][\A s \in DOMAIN record_list :
          SaveTo(s) \/ (s \in DOMAIN record_list'
                        /\ record_list'[s] = record_list[s])]_vars

\* C11: every key of record_list is a slot number in 1..10, whatever saves
\* and loads produced it and whatever keys the loaded file used.
C11_KeysAreSlots == DOMAIN record_list \subseteq MinSlot..MaxSlot

\* C12: a load of a file that parses as a JSON object skips exactly its
\* malformed entries: every entry with an integer key and a positions field
\* is in record_list afterwards, whatever the other entries are.
WellFormed(item) == item[2].kind = "action" /\ IntParses(item[1])
C12_PartialLoad ==
    [][\A f \in FileInputs :
         LET data == files[IF f = "" THEN LAST_USED_FILE ELSE f]
         IN (load_from_local(f) /\ data.exists /\ data.valid) =>
              \A i \in 1..Len(data.items) :
                 WellFormed(data.items[i]) =>
                    /\ PyInt(data.items[i][1]) \in DOMAIN record_list'
                    /\ record_list'[PyInt(data.items[i][1])] = data.items[i][2]]_vars

\* C13: a save of the buffer P to slot s that writes the file can be loaded
\* back: loading the written file succeeds and gives a library with P as the
\* positions at the integer key s and every other slot as it was saved; and
\* a load_from_local of that file right after the save does so.
C13_RoundTrip ==
    [][/\ \A s \in MinSlot..MaxSlot :
            (SaveTo(s) /\ out'[2] = "save_success") =>
               LET back == Loaded(files'[LAST_USED_FILE'], EmptyLib)
               IN /\ back.msg = "load_success"
                  /\ DOMAIN back.lib = DOMAIN record_list \cup {s}
                  /\ back.lib[s].positions = current_recording
                  /\ \A r \in DOMAIN record_list \ {s} :
                        back.lib[r] = record_list[r]
       /\ (out[2] = "save_success" /\ load_from_local("")) =>
              (out' = <<"l", "load_success">> /\ record_list' = record_list)]_vars

\* slot 10 saved with the key "0" and slot 1, loaded back from the file
C13_Witness ==
    /\ out = <<"l", "load_success">>
    /\ {1, 10} \subseteq DOMAIN record_list
    /\ record_list[10].positions = <<<<120, 40>>, <<120, 40>>, <<0, 0>>>>
    /\ files[LAST_USED_FILE] = Dump(record_list)

\* C14: a call of save_recording or save_recording_with_number with a slot
\* outside 1..10, or while current_recording is empty, leaves record_list and
\* the files unchanged.
ValidSlotInput(n) ==
    IsDigit(n) /\ MinSlot <= PyInt(n) /\ PyInt(n) <= MaxSlot
C14_InvalidSaveRejected ==
    [][\A fs \in FsOutcomes :
         /\ \A n \in SlotInputs :
               (save_recording(n, "", "", 1, fs)
                  /\ (current_recording = << >> \/ ~ValidSlotInput(n)))
                 => UNCHANGED <<record_list, files>>
         /\ \A a \in CallSlots :
               (save_recording_with_number("", a, "", "", 1, fs)
                  /\ (current_recording = << >> \/ a \notin MinSlot..MaxSlot))
                 => UNCHANGED <<record_list, files>>]_vars

\* C15: edit_recording removes the first 3 samples if asked to, and then the
\* last 3 if asked to and at least 3 samples are left after that; else it
\* skips the trailing trim.
ClaimedTrim(s, trim_start, trim_end) ==
    LET a == IF trim_start THEN DropFirst(s, TrimFrames) ELSE s
    IN IF trim_end /\ Len(a) - TrimFrames >= TrimFrames
       THEN DropLast(a, TrimFrames) ELSE a
C15_TrimWithFloor ==
    [][\A trim_start \in BOOLEAN, trim_end \in BOOLEAN :
          edit_recording(trim_start, trim_end) =>
             current_recording' =
                ClaimedTrim(current_recording, trim_start, trim_end)]_vars

\* C16: while a pair of waypoints is played, steps is 3 if the largest joint
\* difference of the pair is below 100, 5 if it is at least 100 and below
\* 300, and 7 from 300 on: one of 3, 5 and 7, and never 1.
PairDiff ==
    max_diff(positions_to_play[play_i + 1], positions_to_play[play_i + 2])
C16_StepCount ==
    Playing =>
       /\ steps \in {StepsSmall, StepsMedium, StepsLarge} /\ steps # 1
       /\ PairDiff < DiffSmall => steps = StepsSmall
       /\ (DiffSmall <= PairDiff /\ PairDiff < DiffMedium) => steps = StepsMedium
       /\ PairDiff >= DiffMedium => steps = StepsLarge

\* a pair that differs by exactly 100 has been played and the last of the 7
\* points of a pair that differs by exactly 300 is about to be written
C16_Witness ==
    /\ Playing /\ play_i = 1 /\ play_j = StepsLarge - 1
    /\ max_diff(positions_to_play[1], positions_to_play[2]) = DiffSmall
    /\ PairDiff = DiffMedium /\ steps = StepsLarge

\* C17: the loop over interpolate_positions(A, B, steps), steps >= 2, writes
\* exactly steps vectors of integers: the first is A, the last is B, and it
\* ends after the write of index steps - 1 and no earlier.
Written == out'[2] # "play_error"
C17_Endpoints ==
    [][(play_write /\ Written /\ steps >= 2) =>
         /\ \A k \in 1..Len(slave_bus'.Goal_Position) :
               slave_bus'.Goal_Position[k] \in Int
         /\ Len(slave_bus'.Goal_Position) = Len(positions_to_play[1])
         /\ play_j = 0 => slave_bus'.Goal_Position = positions_to_play[1]
         /\ play_j = steps - 1 => slave_bus'.Goal_Position = positions_to_play[2]
         /\ (fg' = "menu") <=> (play_j = steps - 1)]_vars

\* of the 2 points for two different waypoints the first has been written
C17_Witness ==
    /\ Playing /\ steps = 2 /\ play_j = 1
    /\ positions_to_play[1] # positions_to_play[2]
    /\ slave_bus.Goal_Position = positions_to_play[1]

\* C18: the eased parameter is 0 at t = 0, 1 at t = 1, one half at t = 0.5
\* and does not decrease from one point to the next; for steps in {3, 5, 7}
\* every joint of the points written lies between its start and its end
\* value and moves towards the end value from one write to the next.
C18_EasedMonotone ==
    [][(play_write /\ Written) =>
         LET n == steps - 1
             A == positions_to_play[1]
             B == positions_to_play[2]
             old == slave_bus.Goal_Position
             new == slave_bus'.Goal_Position
         IN /\ EaseNum(0, n) = 0
            /\ EaseNum(n, n) = n * n
            /\ n % 2 = 0 => 2 * EaseNum(n \div 2, n) = n * n
            /\ play_j < n => EaseNum(play_j, n) <= EaseNum(play_j + 1, n)
            /\ steps \in {StepsSmall, StepsMedium, StepsLarge} =>
                  \A k \in 1..Len(A) :
                     /\ Min(A[k], B[k]) <= new[k]
                     /\ new[k] <= Max(A[k], B[k])
                     /\ play_j > 0 =>
                           IF B[k] >= A[k] THEN old[k] <= new[k]
                                           ELSE old[k] >= new[k]]_vars

\* the fifth of 7 points is strictly between a start and a lower end value
C18_Witness ==
    /\ Playing /\ steps = StepsLarge /\ play_j = StepsMedium
    /\ positions_to_play[1][1] > slave_bus.Goal_Position[1]
    /\ slave_bus.Goal_Position[1] > positions_to_play[2][1]

\* C19: play accepts every speed factor typed and goes on with it clamped to
\* 0.5 .. 2.0: a factor below 0.5 becomes 0.5, one above 2.0 becomes 2.0, one
\* inside stays (0.1, 1.0 and 5.0 give 0.5, 1.0 and 2.0).
Clamped(typed) ==
    IF typed < MinSpeed THEN MinSpeed
    ELSE IF typed > MaxSpeed THEN MaxSpeed ELSE typed
C19_SpeedClamped ==
    [][\A sp \in SpeedInputs :
         (play("1", sp) /\ FloatParses(sp) /\ sp # "") =>
            /\ out'[2] \in {"start_play", "play_error"}
            /\ out'[2] = "start_play" =>
                  /\ slave_bus'.Goal_Speed = BASE_SPEED(Clamped(SpeedTable[sp]))
                  /\ Len(record_list[1].positions) >= 2 =>
                        (fg' = "play_loop"
                         /\ speed_factor' = Clamped(SpeedTable[sp]))
                  /\ sp = "0.1" => slave_bus'.Goal_Speed = BASE_SPEED(MinSpeed)
                  /\ sp = "1.0" => slave_bus'.Goal_Speed = BASE_SPEED(DefaultSpeed)
                  /\ sp = "5.0" => slave_bus'.Goal_Speed = BASE_SPEED(MaxSpeed)]_vars

\* playback is under way at the lower limit, a first point written
C19_Witness ==
    /\ Playing /\ speed_factor = MinSpeed
    /\ slave_bus.Goal_Speed = BASE_SPEED(MinSpeed)
    /\ slave_bus.Goal_Position # << >>

\* C20: play of an action with no or one waypoint issues no Goal_Position
\* write and changes no state: the flags, the library, the buffer, the
\* workers and the slave's registers stay as they are.
C20_ShortActionNoOp ==
    [][\A sp \in SpeedInputs :
         (play("1", sp) /\ ~remote_mode /\ 1 \in DOMAIN record_list
                        /\ Len(record_list[1].positions) <= 1) =>
            /\ fg' = "menu"
            /\ slave_bus'.Goal_Position = slave_bus.Goal_Position
            /\ UNCHANGED <<modeVars, libVars, playVars, current_recording,
                           threads>>]_vars

\* C21: the value play writes to Goal_Speed is 8000 x speed_factor rounded
\* to the nearest integer, for the clamped speed_factor of every input, and
\* while the points are written Acceleration and Goal_Speed hold what play
\* wrote before the first of them.
C21_BaseSpeedRounded ==
    [][/\ \A sp \in SpeedInputs :
            (play("1", sp) /\ out'[2] = "start_play") =>
               /\ slave_bus'.Acceleration = PlayAcceleration
               /\ slave_bus'.Goal_Speed =
                     RoundHalfEven(BaseSpeedUnit * SpeedFactor(sp), SpeedScale)
       /\ play_write =>
             /\ slave_bus.Acceleration = PlayAcceleration
             /\ slave_bus.Goal_Speed =
                   RoundHalfEven(BaseSpeedUnit * speed_factor, SpeedScale)]_vars

\* C22: during a recording session, whenever no worker is between its slave
\* write and its append, current_recording is, in order, the positions whose
\* slave write succeeded since record emptied it; an append is of a position
\* written in the same iteration, and a position whose write failed is not
\* appended.
Appending == \E t \in Tids : threads[t].kind = "record" /\ threads[t].pc = "append"
C22_BufferIsMirrored ==
    (recording /\ ~Appending) => current_recording = mirrored

\* C23: a load_from_local that finds no file, or a file that is no JSON, has
\* a key that is no integer on an entry with positions, or has an entry that
\* is no mapping, prints a failure and leaves record_list as it was; any
\* other load prints load_success, and only such a load changes record_list.
Raises(data) ==
    \/ ~data.valid
    \/ \E i \in 1..Len(data.items) :
          \/ data.items[i][2].kind = "number"
          \/ data.items[i][2].kind = "action" /\ ~IntParses(data.items[i][1])
C23_FailedLoadKeepsLibrary ==
    [][\A f \in FileInputs :
         LET data == files[IF f = "" THEN LAST_USED_FILE ELSE f]
         IN load_from_local(f) =>
              /\ ~data.exists =>
                    (out'[2] = "file_not_found" /\ record_list' = record_list)
              /\ (data.exists /\ Raises(data)) =>
                    (out'[2] = "load_failed" /\ record_list' = record_list)
              /\ (data.exists /\ ~Raises(data)) => out'[2] = "load_success"
              /\ record_list' # record_list => out'[2] = "load_success"]_vars

\* a load has failed on a library that holds a saved action
C23_Witness ==
    /\ out = <<"l", "load_failed">>
    /\ DOMAIN record_list # {}
====
